---- MODULE Spec2Model ----
(***************************************************************************)
(* instorage: typed, namespaced access layer over a transactional ordered  *)
(* key-value engine (badger).  Bytes are naturals, byte strings are        *)
(* sequences of naturals, 0 is the separator byte 0x00.  Typed keys are    *)
(* strings (KeyT = string), typed values are integers (ValueT = int64), as *)
(* in the README's example bundle.  An error is a sequence of strings, the *)
(* chain built by fmt.Errorf("...: %w"); the empty sequence is nil.        *)
(***************************************************************************)
EXTENDS Integers, Sequences, FiniteSets, TLC

VARIABLES
    db,        \* committed engine store: engine key -> value bytes
    builder,   \* DB.txnAPIBuilder: the accessors the bundle is made of
    pc,        \* per transaction slot: "idle", "active", "done", "panicked"
    mode,      \* per slot: "update" or "view"
    api,       \* per slot: the bundle built for the running transaction
    snap,      \* per slot: the engine's snapshot at the transaction's start
    pending,   \* per slot: the transaction's pending writes, key -> entry
    reads,     \* per slot: keys the engine tracks as read (update only)
    dirty,     \* per slot: keys committed by others since the slot began
    nops,      \* per slot: accessor calls made by the user function so far
    begun,     \* number of Update/View calls started so far
    shadow,    \* per slot: typed content the user function expects to read
    wrote,     \* per slot: typed slots the user function has written
    out,       \* per slot: outcome of the last finished Update/View call
    ret,       \* the last call (accessor or DB method) and what it returned
    life,      \* the DB handle: "none", "open", "closed", "closefailed", "panicked"
    held,      \* an engine instance is open on the path (it holds the directory lock)
    disk,      \* what the engine has made durable at the path
    repeater,  \* the maintenance task: "none", "started", "stopped"
    sink,      \* what the last Backup wrote to its io.Writer
    opens,     \* number of Open calls made so far
    committed, \* typed content left by the operations that returned nil
               \* (what is read after a Close that failed, when that happened)
    invoked,   \* per slot: times the current call ran the builder and the user function
    prefixed   \* a prefix and a key, and what the two key helpers made of them

vars == <<db, builder, pc, mode, api, snap, pending, reads, dirty, nops,
          begun, shadow, wrote, out, ret, life, held, disk, repeater, sink,
          opens, committed, invoked, prefixed>>

\* the handle and what outlives it
lifecycle == <<life, held, disk, repeater, sink, opens>>

\* ---------------------------------------------------------------- bounds
MaxOps == 2
MaxBegin == 2

Txns == {1, 2}
Keys == {<<1>>, <<2>>}
Values == {1, 2}

\* ---------------------------------------------------------------- errors
Nil == <<>>

\* fmt.Errorf("<op> ...: %w", err)
Wrap(op, err) == <<op>> \o err

\* errors.Is(err, target) along the %w chain: target is the chain's tail
ErrorsIs(err, target) ==
    /\ Len(target) <= Len(err)
    /\ SubSeq(err, Len(err) - Len(target) + 1, Len(err)) = target

ErrKeyNotFound == <<"ErrKeyNotFound">>
ErrReadOnlyTxn == <<"ErrReadOnlyTxn">>
ErrConflict == <<"ErrConflict">>
UserErr == <<"userErr">>

\* ----------------------------------------------------------------- bytes
HasPrefix(s, p) == Len(p) <= Len(s) /\ SubSeq(s, 1, Len(p)) = p

RECURSIVE LexLess(_, _)
\* bytes.Compare(a, b) < 0: the engine's key order
LexLess(a, b) ==
    IF Len(a) = 0 THEN Len(b) > 0
    ELSE IF Len(b) = 0 THEN FALSE
    ELSE IF a[1] # b[1] THEN a[1] < b[1]
    ELSE LexLess(Tail(a), Tail(b))

MinKey(S) == CHOOSE k \in S : \A x \in S \ {k} : LexLess(k, x)

RECURSIVE SortKeys(_)
SortKeys(S) ==
    IF S = {} THEN <<>>
    ELSE LET m == MinKey(S) IN <<m>> \o SortKeys(S \ {m})

\* ----------------------------------------------------------------- codec
\* gob's wire form of a top-level value: message length, type id, a zero
\* delta byte, then the value.  string: id 6 sent as 12, byte count, bytes.
\* int64: id 2 sent as 4, then the integer with its sign in bit 0.
encodeGobString(s) == <<Len(s) + 3, 12, 0, Len(s)>> \o s

encodeGobInt(v) == <<3, 4, 0, IF v >= 0 THEN 2 * v ELSE -2 * v - 1>>

encodeGob(kind, data) ==
    IF kind = "string" THEN encodeGobString(data) ELSE encodeGobInt(data)

\* The message the decoder receives: the first byte counts the bytes of
\* the message that follows; bytes after the message are never read.
gobMessage(b) ==
    IF Len(b) = 0 THEN [err |-> <<"EOF">>, msg |-> <<>>]
    ELSE IF b[1] = 0 THEN [err |-> <<"EOF">>, msg |-> <<>>]
    ELSE IF Len(b) < 1 + b[1] THEN [err |-> <<"ErrUnexpectedEOF">>, msg |-> <<>>]
    ELSE [err |-> Nil, msg |-> SubSeq(b, 2, 1 + b[1])]

decodeGobString(b) ==
    LET m == gobMessage(b) IN
    IF m.err # Nil THEN [err |-> Wrap("decodeGob", m.err), data |-> <<>>]
    ELSE IF Len(m.msg) < 3 \/ m.msg[1] # 12 \/ m.msg[2] # 0
        THEN [err |-> Wrap("decodeGob", <<"gobMismatch">>), data |-> <<>>]
    ELSE IF Len(m.msg) < 3 + m.msg[3]
        THEN [err |-> Wrap("decodeGob", <<"ErrUnexpectedEOF">>), data |-> <<>>]
    ELSE [err |-> Nil, data |-> SubSeq(m.msg, 4, 3 + m.msg[3])]

decodeGobInt(b) ==
    LET m == gobMessage(b) IN
    IF m.err # Nil THEN [err |-> Wrap("decodeGob", m.err), data |-> 0]
    ELSE IF Len(m.msg) < 3 \/ m.msg[1] # 4 \/ m.msg[2] # 0
        THEN [err |-> Wrap("decodeGob", <<"gobMismatch">>), data |-> 0]
    ELSE [err |-> Nil,
          data |-> IF m.msg[3] % 2 = 0 THEN m.msg[3] \div 2
                   ELSE -((m.msg[3] + 1) \div 2)]

decodeGob(kind, b) ==
    IF kind = "string" THEN decodeGobString(b) ELSE decodeGobInt(b)

RECURSIVE BytesJoin(_, _)
\* bytes.Join(s, sep): the slices of s, sep between each two of them
BytesJoin(s, sep) ==
    IF Len(s) = 0 THEN <<>>
    ELSE IF Len(s) = 1 THEN s[1]
    ELSE BytesJoin(SubSeq(s, 1, Len(s) - 1), sep) \o sep \o s[Len(s)]

\* a join that leaves the separator out
addPrefixToKeyUnseparated(prefix, key) == prefix \o key

\* bytes.Join([][]byte{prefix, key}, []byte{0x00})
addPrefixToKey(prefix, key) == BytesJoin(<<prefix, key>>, <<0>>)

\* key[len(prefix)+1:] panics when the slice start lies beyond len(key)
removePrefixPanics(prefix, key) == Len(prefix) + 1 > Len(key)

\* a slice that starts at the separator instead of after it
removePrefixFromKeyKeepsSeparator(prefix, key) ==
    SubSeq(key, Len(prefix) + 1, Len(key))

\* key[len(prefix)+1:]
removePrefixFromKey(prefix, key) == SubSeq(key, Len(prefix) + 2, Len(key))

\* ---------------------------------------------------------------- engine
Put(m, k, v) == [x \in DOMAIN m \cup {k} |-> IF x = k THEN v ELSE m[x]]

EmptyMap == [x \in {} |-> <<>>]

Tomb == [del |-> TRUE, val |-> <<>>]

Entry(v) == [del |-> FALSE, val |-> v]

\* what a Txn handle refers to: the engine transaction of slot t
Tx(t) == [update |-> mode[t] = "update", snap |-> snap[t], pending |-> pending[t]]

\* a read-only transaction on a given committed store
FreshView(store) == [update |-> FALSE, snap |-> store, pending |-> EmptyMap]

\* badger.Txn.Get: pending writes first, then the snapshot
TxnGet(txn, k) ==
    IF txn.update /\ k \in DOMAIN txn.pending
    THEN IF txn.pending[k].del
         THEN [err |-> ErrKeyNotFound, val |-> <<>>]
         ELSE [err |-> Nil, val |-> txn.pending[k].val]
    ELSE IF k \in DOMAIN txn.snap
         THEN [err |-> Nil, val |-> txn.snap[k]]
         ELSE [err |-> ErrKeyNotFound, val |-> <<>>]

\* keys Get leaves in the engine's read set: none when served from the
\* pending writes, none in a read-only transaction
TxnGetReads(txn, k) ==
    IF txn.update /\ k \notin DOMAIN txn.pending THEN {k} ELSE {}

\* a transaction that takes writes whatever it was started as
TxnWriteErrNever(txn) == Nil

\* badger.Txn.Set / Delete: rejected in a read-only transaction
TxnWriteErr(txn) == IF txn.update THEN Nil ELSE ErrReadOnlyTxn

\* keys visible to the transaction: snapshot merged with pending writes
TxnKeys(txn) ==
    {k \in DOMAIN txn.snap \cup DOMAIN txn.pending : TxnGet(txn, k).err = Nil}

\* it.Seek(prefix); it.ValidForPrefix(prefix); it.Next(): the visible
\* entries whose key starts with prefix, in ascending key order
TxnScan(txn, prefix) ==
    LET ks == SortKeys({k \in TxnKeys(txn) : HasPrefix(k, prefix)})
    IN [i \in 1..Len(ks) |-> [key |-> ks[i], val |-> TxnGet(txn, ks[i]).val]]

\* oracle conflict check at commit: a key read was committed by another
\* transaction after this one started; a transaction without writes
\* commits trivially
HasConflict(t) == DOMAIN pending[t] # {} /\ reads[t] \cap dirty[t] # {}

\* the committed store after the transaction's writes are applied
ApplyWrites(store, w) ==
    [k \in {x \in DOMAIN store \cup DOMAIN w :
                IF x \in DOMAIN w THEN ~w[x].del ELSE TRUE}
        |-> IF k \in DOMAIN w THEN w[k].val ELSE store[k]]

\* a drop of the keys that start with the name and the separator only
DropPrefixSeparated(store, prefix) ==
    [k \in {x \in DOMAIN store : ~HasPrefix(x, prefix \o <<0>>)} |-> store[k]]

\* badger.DB.DropPrefix
DropPrefix(store, prefix) ==
    [k \in {x \in DOMAIN store : ~HasPrefix(x, prefix)} |-> store[k]]

\* ------------------------------------------------------------- accessors
\* strings.ContainsRune(name, '\x00')
ContainsNul(name) == \E i \in 1..Len(name) : name[i] = 0

\* a constructor that rejects the empty name only
NamePanicsOnEmpty(name) == name = <<>>

\* the two panics of the constructors
NamePanics(name) == name = <<>> \/ ContainsNul(name)

NewNamespaceSingle(txn, name) ==
    [panic |-> NamePanics(name), kind |-> "single", txn |-> txn, name |-> name]

NewNamespaceMultiple(txn, name) ==
    [panic |-> NamePanics(name), kind |-> "multi", txn |-> txn, name |-> name]

\* Results of the accessor methods.  Each is a record of what the method
\* returns (value/key/ok/err), whether it panics, the write it hands to the
\* engine (w: key -> entry) and the keys the engine records as read (rd).

\* NamespaceSingle.Set
NssSet(txn, name, value) ==
    LET valueb == encodeGob("int", value)
        err == TxnWriteErr(txn)
    IN IF err # Nil
       THEN [err |-> Wrap("Set", err), w |-> EmptyMap]
       ELSE [err |-> Nil, w |-> Put(EmptyMap, name, Entry(valueb))]

\* a Get that passes the engine's ErrKeyNotFound on instead of translating it
NssGetNotFoundIsError(txn, name) ==
    LET item == TxnGet(txn, name)
        d == decodeGob("int", item.val)
    IN IF item.err # Nil
       THEN [value |-> 0, err |-> Wrap("Get", item.err)]
       ELSE IF d.err # Nil
            THEN [value |-> 0, err |-> Wrap("Get", d.err)]
            ELSE [value |-> d.data, err |-> Nil]

\* NamespaceSingle.Get
NssGet(txn, name) ==
    LET item == TxnGet(txn, name)
        d == decodeGob("int", item.val)
    IN IF item.err # Nil
       THEN IF ErrorsIs(item.err, ErrKeyNotFound)
            THEN [value |-> 0, err |-> Nil]
            ELSE [value |-> 0, err |-> Wrap("Get", item.err)]
       ELSE IF d.err # Nil
            THEN [value |-> 0, err |-> Wrap("Get", d.err)]
            ELSE [value |-> d.data, err |-> Nil]

\* NamespaceSingle.Delete
NssDelete(txn, name) ==
    LET err == TxnWriteErr(txn)
    IN IF err # Nil
       THEN IF ErrorsIs(err, ErrKeyNotFound)
            THEN [err |-> Nil, w |-> EmptyMap]
            ELSE [err |-> Wrap("Delete", err), w |-> EmptyMap]
       ELSE [err |-> Nil, w |-> Put(EmptyMap, name, Tomb)]

\* the engine key of a typed key of a multi-value namespace
NsmKey(name, key) == addPrefixToKey(name, encodeGob("string", key))

\* NamespaceMultiple.Set
NsmSet(txn, name, key, value) ==
    LET valueb == encodeGob("int", value)
        err == TxnWriteErr(txn)
    IN IF err # Nil
       THEN [err |-> Wrap("Set", err), w |-> EmptyMap]
       ELSE [err |-> Nil, w |-> Put(EmptyMap, NsmKey(name, key), Entry(valueb))]

\* NamespaceMultiple.Get
NsmGet(txn, name, key) ==
    LET item == TxnGet(txn, NsmKey(name, key))
        d == decodeGob("int", item.val)
    IN IF item.err # Nil
       THEN IF ErrorsIs(item.err, ErrKeyNotFound)
            THEN [value |-> 0, ok |-> FALSE, err |-> Nil]
            ELSE [value |-> 0, ok |-> FALSE, err |-> Wrap("Get", item.err)]
       ELSE IF d.err # Nil
            THEN [value |-> 0, ok |-> FALSE, err |-> Wrap("Get", d.err)]
            ELSE [value |-> d.data, ok |-> TRUE, err |-> Nil]

\* a Delete that returns nil without handing the engine a delete entry
NsmDeleteSkips(txn, name, key) ==
    LET err == TxnWriteErr(txn)
    IN IF err # Nil
       THEN [err |-> Wrap("Delete", err), w |-> EmptyMap]
       ELSE [err |-> Nil, w |-> EmptyMap]

\* NamespaceMultiple.Delete
NsmDelete(txn, name, key) ==
    LET err == TxnWriteErr(txn)
    IN IF err # Nil
       THEN [err |-> Wrap("Delete", err), w |-> EmptyMap]
       ELSE [err |-> Nil, w |-> Put(EmptyMap, NsmKey(name, key), Tomb)]

\* The visitor passed to Iter: it answers (FALSE, nil) to every call but
\* its at-th, which it answers (stop, err); at = 0 never happens.
ViewerCall(viewer, i) ==
    IF i = viewer.at THEN [stop |-> viewer.stop, err |-> viewer.err]
    ELSE [stop |-> FALSE, err |-> Nil]

\* a loop that ignores the visitor's stop
IterNeverBreaks(stop) == FALSE

\* if stop { break }
IterBreaks(stop) == stop

\* the prefix Iter and FindKeyByValue seek to and stay within
ScanPrefix(name) == name

RECURSIVE IterLoop(_, _, _, _, _)
\* the for loop of Iter over the engine's entries from the i-th on
IterLoop(prefix, items, i, viewer, calls) ==
    IF i > Len(items)
    THEN [calls |-> calls, err |-> Nil, panic |-> FALSE, seen |-> Len(items)]
    ELSE
    LET k == items[i].key
        kd == decodeGob("string", removePrefixFromKey(prefix, k))
        vd == decodeGob("int", items[i].val)
        r == ViewerCall(viewer, Len(calls) + 1)
        called == Append(calls, [key |-> kd.data, value |-> vd.data,
                                 stop |-> r.stop, err |-> r.err])
    IN IF removePrefixPanics(prefix, k)
       THEN [calls |-> calls, err |-> Nil, panic |-> TRUE, seen |-> i]
       ELSE IF kd.err # Nil
       THEN [calls |-> calls, err |-> Wrap("Iter", kd.err), panic |-> FALSE, seen |-> i]
       ELSE IF vd.err # Nil
       THEN [calls |-> calls, err |-> Wrap("Iter", vd.err), panic |-> FALSE, seen |-> i]
       ELSE IF r.err # Nil
       THEN [calls |-> called, err |-> Wrap("Iter", r.err), panic |-> FALSE, seen |-> i]
       ELSE IF IterBreaks(r.stop)
       THEN [calls |-> called, err |-> Nil, panic |-> FALSE, seen |-> i]
       ELSE IterLoop(prefix, items, i + 1, viewer, called)

\* NamespaceMultiple.Iter
Iter(txn, name, viewer) ==
    LET prefix == ScanPrefix(name)
        items == TxnScan(txn, prefix)
        r == IterLoop(prefix, items, 1, viewer, <<>>)
    IN [calls |-> r.calls, err |-> r.err, panic |-> r.panic, seen |-> r.seen,
        rd |-> IF txn.update THEN {items[j].key : j \in 1..r.seen} ELSE {}]

\* the ok FindKeyByValue returns after its loop, a match found or not
FindOk(found) == TRUE

RECURSIVE FindLoop(_, _, _, _)
\* the for loop of FindKeyByValue over the engine's entries from the i-th on
FindLoop(prefix, items, i, targetvalueb) ==
    IF i > Len(items)
    THEN [key |-> <<>>, ok |-> FindOk(FALSE), err |-> Nil, panic |-> FALSE,
          seen |-> Len(items)]
    ELSE
    LET k == items[i].key
        kd == decodeGob("string", removePrefixFromKey(prefix, k))
    IN IF items[i].val # targetvalueb
       THEN FindLoop(prefix, items, i + 1, targetvalueb)
       ELSE IF removePrefixPanics(prefix, k)
       THEN [key |-> <<>>, ok |-> FALSE, err |-> Nil, panic |-> TRUE, seen |-> i]
       ELSE IF kd.err # Nil
       THEN [key |-> <<>>, ok |-> FALSE, err |-> Wrap("FindKeyByValue", kd.err),
             panic |-> FALSE, seen |-> i]
       ELSE [key |-> kd.data, ok |-> FindOk(TRUE), err |-> Nil, panic |-> FALSE,
             seen |-> i]

\* NamespaceMultiple.FindKeyByValue
FindKeyByValue(txn, name, value) ==
    LET prefix == ScanPrefix(name)
        items == TxnScan(txn, prefix)
        r == FindLoop(prefix, items, 1, encodeGob("int", value))
    IN [key |-> r.key, ok |-> r.ok, err |-> r.err, panic |-> r.panic,
        rd |-> IF txn.update THEN {items[j].key : j \in 1..r.seen} ELSE {}]

\* ---------------------------------------------------------------- bundles
Single(name) == [kind |-> "single", name |-> name]

Multi(name) == [kind |-> "multi", name |-> name]

\* A bundle with a single-value and a multi-value namespace of the same
\* name and a single-value namespace whose name extends it.
MainBundle == <<Single(<<1>>), Multi(<<1>>), Single(<<1, 2>>)>>

\* The txnAPIBuilder functions Open is given in this model.
Builders ==
    { MainBundle,
      <<Single(<<>>)>>,
      <<Multi(<<>>)>>,
      <<Single(<<1>>), Single(<<1, 0>>)>>,
      <<Single(<<1>>), Multi(<<0>>)>> }

\* names DropNamespace is called with
DropNames == {<<1>>, <<1, 2>>}

\* a builder whose accessors all share the first transaction's handle
BuildAPIShared(t) ==
    [i \in 1..Len(builder) |->
        IF builder[i].kind = "single"
        THEN NewNamespaceSingle(1, builder[i].name)
        ELSE NewNamespaceMultiple(1, builder[i].name)]

\* db.txnAPIBuilder(Txn{badgertxn}): every accessor is built on the one
\* transaction handle
BuildAPI(t) ==
    [i \in 1..Len(builder) |->
        IF builder[i].kind = "single"
        THEN NewNamespaceSingle(t, builder[i].name)
        ELSE NewNamespaceMultiple(t, builder[i].name)]

BuildPanics(t) == \E i \in 1..Len(builder) : BuildAPI(t)[i].panic

\* the typed slots of a bundle: one per single-value namespace, one per
\* typed key of a multi-value namespace
Cells(bundle) ==
    {[kind |-> "single", name |-> bundle[i].name, key |-> <<>>] :
        i \in {j \in 1..Len(bundle) : bundle[j].kind = "single"}}
    \cup
    {[kind |-> "multi", name |-> bundle[i].name, key |-> k] :
        i \in {j \in 1..Len(bundle) : bundle[j].kind = "multi"}, k \in Keys}

Absent == [ok |-> FALSE, val |-> 0]

Present(v) == [ok |-> TRUE, val |-> v]

\* what the accessor of a typed slot reads in a transaction
ReadCell(txn, c) ==
    IF c.kind = "single"
    THEN [ok |-> TxnGet(txn, c.name).err = Nil, val |-> NssGet(txn, c.name).value]
    ELSE [ok |-> NsmGet(txn, c.name, c.key).ok, val |-> NsmGet(txn, c.name, c.key).value]

Viewers ==
    {[at |-> 0, stop |-> FALSE, err |-> Nil]} \cup
    {v \in [at : {1, 2}, stop : BOOLEAN, err : {Nil, UserErr}] :
        v.stop \/ v.err # Nil}

NoRet ==
    [op |-> "none", t |-> 0, name |-> <<>>, key |-> <<>>, value |-> 0,
     ok |-> FALSE, err |-> Nil, panic |-> FALSE, calls |-> <<>>,
     seen |-> 0, at |-> 0]

NoOut == [kind |-> "none", fnErr |-> Nil, err |-> Nil, nwrites |-> 0]

\* the record of a DB method's return
MethodRet(op, err) == [NoRet EXCEPT !.op = op, !.err = err]

\* the key helpers have not been called
NoPrefixed ==
    [step |-> "none", prefix |-> <<>>, key |-> <<>>, full |-> <<>>,
     stripped |-> <<>>, panic |-> FALSE]

\* nothing has been written to a backup sink
NoSink == [ok |-> FALSE, stream |-> <<>>, store |-> EmptyMap]

\* the typed content of a store, as a View started on it reads it
TypedContent(store) == [c \in Cells(builder) |-> ReadCell(FreshView(store), c)]

\* ------------------------------------------------------------------ state
Init ==
    /\ db = EmptyMap
    /\ builder \in Builders
    /\ pc = [t \in Txns |-> "idle"]
    /\ mode = [t \in Txns |-> "view"]
    /\ api = [t \in Txns |-> <<>>]
    /\ snap = [t \in Txns |-> EmptyMap]
    /\ pending = [t \in Txns |-> EmptyMap]
    /\ reads = [t \in Txns |-> {}]
    /\ dirty = [t \in Txns |-> {}]
    /\ nops = [t \in Txns |-> 0]
    /\ begun = 0
    /\ shadow = [t \in Txns |-> EmptyMap]
    /\ wrote = [t \in Txns |-> {}]
    /\ out = [t \in Txns |-> NoOut]
    /\ ret = NoRet
    /\ life = "open"
    /\ held = TRUE
    /\ disk = EmptyMap
    /\ repeater = "started"
    /\ sink = NoSink
    /\ opens = 1
    /\ committed = TypedContent(EmptyMap)
    /\ invoked = [t \in Txns |-> [builder |-> 0, fn |-> 0]]
    /\ prefixed = NoPrefixed

Running == life # "panicked" /\ \A t \in Txns : pc[t] # "panicked"

Opened == life = "open"

InFlight(t) == pc[t] = "active"

\* the user function's expectations end with its call
Forgotten(t) ==
    /\ shadow' = [shadow EXCEPT ![t] = EmptyMap]
    /\ wrote' = [wrote EXCEPT ![t] = {}]

\* the engine transaction is discarded: nothing of it remains
Discarded(t) ==
    /\ api' = [api EXCEPT ![t] = <<>>]
    /\ snap' = [snap EXCEPT ![t] = EmptyMap]
    /\ pending' = [pending EXCEPT ![t] = EmptyMap]
    /\ reads' = [reads EXCEPT ![t] = {}]
    /\ dirty' = [dirty EXCEPT ![t] = {}]

\* DB.Update / DB.View up to the call of the user function: the engine
\* starts a transaction on its current snapshot and the bundle is built.
Begin(t, m) ==
    /\ Running
    /\ Opened
    /\ pc[t] \in {"idle", "done"}
    /\ \A u \in Txns : u < t => InFlight(u)
    /\ begun < MaxBegin
    /\ begun' = begun + 1
    /\ mode' = [mode EXCEPT ![t] = m]
    /\ nops' = [nops EXCEPT ![t] = 0]
    /\ out' = [out EXCEPT ![t] = NoOut]
    /\ IF BuildPanics(t)
       THEN /\ pc' = [pc EXCEPT ![t] = "panicked"]
            /\ Discarded(t)
            /\ Forgotten(t)
       ELSE /\ pc' = [pc EXCEPT ![t] = "active"]
            /\ api' = [api EXCEPT ![t] = BuildAPI(t)]
            /\ snap' = [snap EXCEPT ![t] = db]
            /\ pending' = [pending EXCEPT ![t] = EmptyMap]
            /\ reads' = [reads EXCEPT ![t] = {}]
            /\ dirty' = [dirty EXCEPT ![t] = {}]
            /\ shadow' = [shadow EXCEPT ![t] =
                 [c \in Cells(builder) |-> ReadCell(FreshView(db), c)]]
            /\ wrote' = [wrote EXCEPT ![t] = {}]
    /\ invoked' = [invoked EXCEPT ![t] =
          [builder |-> 1, fn |-> IF BuildPanics(t) THEN 0 ELSE 1]]
    /\ ret' = NoRet
    /\ UNCHANGED <<db, builder, lifecycle, committed, prefixed>>

UpdateBegin(t) == Begin(t, "update")

ViewBegin(t) == Begin(t, "view")

\* the accessor call of the user function: guards shared by all of them
CanCall(t, i, kind) ==
    /\ Running
    /\ InFlight(t)
    /\ nops[t] < MaxOps
    /\ i \in 1..Len(api[t])
    /\ api[t][i].kind = kind

MergeWrites(p, w) ==
    [k \in DOMAIN p \cup DOMAIN w |-> IF k \in DOMAIN w THEN w[k] ELSE p[k]]

\* a call of slot t's user function that returns: the engine transaction
\* behind the accessor's handle h takes its writes and read keys
Returned(t, h, w, rd, r) ==
    /\ pending' = [pending EXCEPT ![h] = MergeWrites(pending[h], w)]
    /\ reads' = [reads EXCEPT ![h] = reads[h] \cup rd]
    /\ nops' = [nops EXCEPT ![t] = nops[t] + 1]
    /\ ret' = r
    /\ UNCHANGED <<db, builder, pc, mode, api, snap, dirty, begun, out,
                   lifecycle, committed,
                   invoked, prefixed>>

\* a call that panics: the panic unwinds through the engine's deferred
\* Discard and out of Update/View
Panicked(t, r) ==
    /\ pc' = [pc EXCEPT ![t] = "panicked"]
    /\ Discarded(t)
    /\ nops' = [nops EXCEPT ![t] = nops[t] + 1]
    /\ ret' = r
    /\ UNCHANGED <<db, builder, mode, begun, out, shadow, wrote, lifecycle,
                   committed,
                   invoked, prefixed>>

CellOf(acc, key) == [kind |-> acc.kind, name |-> acc.name, key |-> key]

\* a write that returned nil is what the user function expects to read
Expect(t, err, c, v) ==
    /\ shadow' = IF err = Nil THEN [shadow EXCEPT ![t][c] = v] ELSE shadow
    /\ wrote' = IF err = Nil THEN [wrote EXCEPT ![t] = wrote[t] \cup {c}] ELSE wrote

DoNssSet(t, i, v) ==
    /\ CanCall(t, i, "single")
    /\ LET acc == api[t][i]
           r == NssSet(Tx(acc.txn), acc.name, v)
       IN /\ Returned(t, acc.txn, r.w, {},
                [NoRet EXCEPT !.op = "NssSet", !.t = t, !.name = acc.name,
                              !.value = v, !.err = r.err])
          /\ Expect(t, r.err, CellOf(acc, <<>>), Present(v))

DoNssGet(t, i) ==
    /\ CanCall(t, i, "single")
    /\ LET acc == api[t][i]
           r == NssGet(Tx(acc.txn), acc.name)
       IN /\ Returned(t, acc.txn, EmptyMap, TxnGetReads(Tx(acc.txn), acc.name),
                [NoRet EXCEPT !.op = "NssGet", !.t = t, !.name = acc.name,
                              !.value = r.value, !.err = r.err])
          /\ UNCHANGED <<shadow, wrote>>

DoNssDelete(t, i) ==
    /\ CanCall(t, i, "single")
    /\ LET acc == api[t][i]
           r == NssDelete(Tx(acc.txn), acc.name)
       IN /\ Returned(t, acc.txn, r.w, {},
                [NoRet EXCEPT !.op = "NssDelete", !.t = t, !.name = acc.name,
                              !.err = r.err])
          /\ Expect(t, r.err, CellOf(acc, <<>>), Absent)

DoNsmSet(t, i, k, v) ==
    /\ CanCall(t, i, "multi")
    /\ LET acc == api[t][i]
           r == NsmSet(Tx(acc.txn), acc.name, k, v)
       IN /\ Returned(t, acc.txn, r.w, {},
                [NoRet EXCEPT !.op = "NsmSet", !.t = t, !.name = acc.name,
                              !.key = k, !.value = v, !.err = r.err])
          /\ Expect(t, r.err, CellOf(acc, k), Present(v))

DoNsmGet(t, i, k) ==
    /\ CanCall(t, i, "multi")
    /\ LET acc == api[t][i]
           r == NsmGet(Tx(acc.txn), acc.name, k)
       IN /\ Returned(t, acc.txn, EmptyMap, TxnGetReads(Tx(acc.txn), NsmKey(acc.name, k)),
                [NoRet EXCEPT !.op = "NsmGet", !.t = t, !.name = acc.name,
                              !.key = k, !.value = r.value, !.ok = r.ok,
                              !.err = r.err])
          /\ UNCHANGED <<shadow, wrote>>

DoNsmDelete(t, i, k) ==
    /\ CanCall(t, i, "multi")
    /\ LET acc == api[t][i]
           r == NsmDelete(Tx(acc.txn), acc.name, k)
       IN /\ Returned(t, acc.txn, r.w, {},
                [NoRet EXCEPT !.op = "NsmDelete", !.t = t, !.name = acc.name,
                              !.key = k, !.err = r.err])
          /\ Expect(t, r.err, CellOf(acc, k), Absent)

DoIter(t, i, viewer) ==
    /\ CanCall(t, i, "multi")
    /\ LET acc == api[t][i]
           r == Iter(Tx(acc.txn), acc.name, viewer)
           rec == [NoRet EXCEPT !.op = "Iter", !.t = t, !.name = acc.name,
                                !.err = r.err, !.panic = r.panic,
                                !.calls = r.calls, !.seen = r.seen,
                                !.at = viewer.at]
       IN IF r.panic
          THEN Panicked(t, rec)
          ELSE Returned(t, acc.txn, EmptyMap, r.rd, rec) /\ UNCHANGED <<shadow, wrote>>

DoFind(t, i, v) ==
    /\ CanCall(t, i, "multi")
    /\ LET acc == api[t][i]
           r == FindKeyByValue(Tx(acc.txn), acc.name, v)
           rec == [NoRet EXCEPT !.op = "FindKeyByValue", !.t = t,
                                !.name = acc.name, !.value = v, !.key = r.key,
                                !.ok = r.ok, !.err = r.err, !.panic = r.panic]
       IN IF r.panic
          THEN Panicked(t, rec)
          ELSE Returned(t, acc.txn, EmptyMap, r.rd, rec) /\ UNCHANGED <<shadow, wrote>>

\* an Update that drops the error of the engine's commit
UpdateErrOfFnOnly(fnErr, conflict) ==
    IF fnErr # Nil THEN Wrap("Update", fnErr) ELSE Nil

\* what Update does with the user function's error and the commit's
UpdateErr(fnErr, conflict) ==
    IF fnErr # Nil THEN Wrap("Update", fnErr)
    ELSE IF conflict THEN Wrap("Update", ErrConflict)
    ELSE Nil

\* an Update that commits whatever the user function returned
UpdateStoreAlways(store, w, err) == ApplyWrites(store, w)

\* the store Update leaves: the transaction's writes are committed only
\* when the user function returned nil and the commit did not conflict
UpdateStore(store, w, err) == IF err = Nil THEN ApplyWrites(store, w) ELSE store

\* DB.Update from the user function's return on: commit or discard
UpdateReturn(t, fnErr) ==
    /\ Running
    /\ InFlight(t)
    /\ mode[t] = "update"
    /\ LET err == UpdateErr(fnErr, HasConflict(t))
       IN /\ db' = UpdateStore(db, pending[t], err)
          /\ dirty' = [u \in Txns |->
                IF u # t /\ InFlight(u) /\ mode[u] = "update" /\ err = Nil
                THEN dirty[u] \cup DOMAIN pending[t]
                ELSE IF u = t THEN {} ELSE dirty[u]]
          /\ out' = [out EXCEPT ![t] =
                [kind |-> "update", fnErr |-> fnErr, err |-> err,
                 nwrites |-> Cardinality(DOMAIN pending[t])]]
          /\ committed' = IF err = Nil
                          THEN [c \in DOMAIN committed |->
                                  IF c \in wrote[t] THEN shadow[t][c]
                                  ELSE committed[c]]
                          ELSE committed
    /\ pc' = [pc EXCEPT ![t] = "done"]
    /\ api' = [api EXCEPT ![t] = <<>>]
    /\ snap' = [snap EXCEPT ![t] = EmptyMap]
    /\ pending' = [pending EXCEPT ![t] = EmptyMap]
    /\ reads' = [reads EXCEPT ![t] = {}]
    /\ Forgotten(t)
    /\ ret' = NoRet
    /\ UNCHANGED <<builder, mode, nops, begun, lifecycle,
                   invoked, prefixed>>

\* what View does with the user function's error
ViewErr(fnErr) == IF fnErr # Nil THEN Wrap("View", fnErr) ELSE Nil

\* DB.View from the user function's return on: the transaction is discarded
ViewReturn(t, fnErr) ==
    /\ Running
    /\ InFlight(t)
    /\ mode[t] = "view"
    /\ out' = [out EXCEPT ![t] =
          [kind |-> "view", fnErr |-> fnErr, err |-> ViewErr(fnErr),
           nwrites |-> 0]]
    /\ pc' = [pc EXCEPT ![t] = "done"]
    /\ Discarded(t)
    /\ Forgotten(t)
    /\ ret' = NoRet
    /\ UNCHANGED <<db, builder, mode, nops, begun, lifecycle, committed,
                   invoked, prefixed>>

\* DB.DropNamespace, called while no transaction is in flight; seen counts
\* the entries the drop removed
DropNamespace(name) ==
    /\ Running
    /\ \A t \in Txns : ~InFlight(t)
    /\ Opened
    /\ db' = DropPrefix(db, name)
    /\ committed' = TypedContent(db')
    /\ ret' = [MethodRet("DropNamespace", Nil) EXCEPT
                  !.name = name,
                  !.seen = Cardinality(DOMAIN db) - Cardinality(DOMAIN db')]
    /\ UNCHANGED <<builder, pc, mode, api, snap, pending, reads, dirty, nops,
                   begun, shadow, wrote, out, lifecycle,
                   invoked, prefixed>>

\* DB.DropAll, called while no transaction is in flight
DropAll ==
    /\ Running
    /\ \A t \in Txns : ~InFlight(t)
    /\ Opened
    /\ db' = EmptyMap
    /\ committed' = TypedContent(db')
    /\ ret' = MethodRet("DropAll", Nil)
    /\ UNCHANGED <<builder, pc, mode, api, snap, pending, reads, dirty, nops,
                   begun, shadow, wrote, out, lifecycle,
                   invoked, prefixed>>

\* ------------------------------------------------------------- lifecycle
MaxOpens == 2

\* an error of the engine (I/O failure, directory lock held, ...)
ErrEngine == <<"engineErr">>

NoTxnInFlight == \A t \in Txns : ~InFlight(t)

\* badger.Open on the path: refused while another instance holds the
\* directory lock, or on an I/O failure
EngineOpenErr(okOpen) == IF held \/ ~okOpen THEN ErrEngine ELSE Nil

\* Open(dbpath, txnAPIBuilder).  nonNil: the builder passed is not nil (the
\* same builder is passed at every Open); okOpen, okFlatten: the engine's
\* Open and Flatten succeed.  The two error returns leave the function
\* without closing what was opened and before the repeater is started.
\* After a Close that returned an error nothing is known of what the path
\* holds: what the reopened store reads is taken as its content from then on.
Open(nonNil, okOpen, okFlatten) ==
    /\ Running
    /\ life \in {"none", "closed", "closefailed"}
    /\ opens < MaxOpens
    /\ opens' = opens + 1
    /\ IF ~nonNil
       THEN /\ life' = "panicked"
            /\ ret' = [MethodRet("Open", Nil) EXCEPT !.panic = TRUE]
            /\ UNCHANGED <<db, held, repeater>>
       ELSE IF EngineOpenErr(okOpen) # Nil
       THEN /\ ret' = MethodRet("Open", Wrap("Open", EngineOpenErr(okOpen)))
            /\ UNCHANGED <<db, life, held, repeater>>
       ELSE IF ~okFlatten
       THEN /\ ret' = MethodRet("Open", Wrap("Open", ErrEngine))
            /\ db' = disk
            /\ held' = TRUE
            /\ UNCHANGED <<life, repeater>>
       ELSE /\ ret' = MethodRet("Open", Nil)
            /\ db' = disk
            /\ held' = TRUE
            /\ repeater' = "started"
            /\ life' = "open"
    /\ committed' = IF life = "closefailed" /\ life' = "open"
                    THEN TypedContent(db')
                    ELSE committed
    /\ UNCHANGED <<builder, pc, mode, api, snap, pending, reads, dirty, nops,
                   begun, shadow, wrote, out, disk, sink, invoked, prefixed>>

\* a Close that leaves the path as it was
FlushedNothing(onDisk, store) == onDisk

\* badgerdb.Close: what the path holds once the engine has closed
Flushed(onDisk, store) == store

\* DB.Close, called while no transaction is in flight: the repeater's stop
\* function is called, then the engine is closed
Close(okClose) ==
    /\ Running
    /\ Opened
    /\ NoTxnInFlight
    /\ repeater' = "stopped"
    /\ held' = FALSE
    /\ db' = EmptyMap
    /\ IF okClose
       THEN /\ disk' = Flushed(disk, db)
            /\ life' = "closed"
            /\ ret' = MethodRet("Close", Nil)
       ELSE /\ disk' \in {disk, Flushed(disk, db)}
            /\ life' = "closefailed"
            /\ ret' = MethodRet("Close", Wrap("Close", ErrEngine))
    /\ UNCHANGED <<builder, pc, mode, api, snap, pending, reads, dirty, nops,
                   begun, shadow, wrote, out, sink, opens, committed,
                   invoked, prefixed>>

\* badgerdb.Backup(w, 0): the entries of the store in key order
BackupStream(store) ==
    LET keys == SortKeys(DOMAIN store)
    IN [i \in 1..Len(keys) |-> <<keys[i], store[keys[i]]>>]

\* badgerdb.Load: the entries of a stream written into the store
LoadStream(store, stream) ==
    LET ks == {stream[i][1] : i \in 1..Len(stream)}
    IN [k \in DOMAIN store \cup ks |->
           IF k \in ks
           THEN stream[CHOOSE i \in 1..Len(stream) : stream[i][1] = k][2]
           ELSE store[k]]

\* DB.Backup(w), called between transactions: on an error of the engine or
\* the writer, w holds less than the whole stream
Backup(okBackup) ==
    /\ Running
    /\ Opened
    /\ NoTxnInFlight
    /\ LET stream == BackupStream(db)
       IN IF okBackup
          THEN /\ sink' = [ok |-> TRUE, stream |-> stream, store |-> db]
               /\ ret' = MethodRet("Backup", Nil)
          ELSE /\ \E n \in 0..(IF stream = <<>> THEN 0 ELSE Len(stream) - 1) :
                     sink' = [ok |-> FALSE, stream |-> SubSeq(stream, 1, n),
                              store |-> db]
               /\ ret' = MethodRet("Backup", Wrap("Backup", ErrEngine))
    /\ UNCHANGED <<db, builder, pc, mode, api, snap, pending, reads, dirty,
                   nops, begun, shadow, wrote, out, life, held, disk, repeater,
                   opens, committed,
                   invoked, prefixed>>

\* a LoadBackup that loads the stream over the data already stored
LoadedOver(store, stream) == LoadStream(store, stream)

\* the store after LoadBackup's DropAll and Load have both succeeded
Loaded(store, stream) == LoadStream(EmptyMap, stream)

\* DB.LoadBackup(r), r being what the last Backup wrote, called while no
\* transaction is in flight.  fail names the engine call that fails; seen
\* counts the keys that were stored before and are not afterwards.
LoadBackup(fail) ==
    /\ Running
    /\ Opened
    /\ NoTxnInFlight
    /\ sink # NoSink
    /\ db' = IF fail = "DropAll" THEN db
             ELSE IF fail = "Load" THEN EmptyMap
             ELSE Loaded(db, sink.stream)
    /\ ret' = [MethodRet("LoadBackup",
                  IF fail = "none" THEN Nil ELSE Wrap("LoadBackup", ErrEngine))
               EXCEPT !.seen = Cardinality(DOMAIN db \ DOMAIN db')]
    /\ committed' = TypedContent(db')
    /\ UNCHANGED <<builder, pc, mode, api, snap, pending, reads, dirty, nops,
                   begun, shadow, wrote, out, lifecycle,
                   invoked, prefixed>>

LoadFails == {"none", "DropAll", "Load", "Flatten"}

FnErrs == {Nil, UserErr}

Next ==
    \/ \E t \in Txns : UpdateBegin(t)
    \/ \E t \in Txns : ViewBegin(t)
    \/ \E t \in Txns, i \in 1..3, v \in Values : DoNssSet(t, i, v)
    \/ \E t \in Txns, i \in 1..3 : DoNssGet(t, i)
    \/ \E t \in Txns, i \in 1..3 : DoNssDelete(t, i)
    \/ \E t \in Txns, i \in 1..3, k \in Keys, v \in Values : DoNsmSet(t, i, k, v)
    \/ \E t \in Txns, i \in 1..3, k \in Keys : DoNsmGet(t, i, k)
    \/ \E t \in Txns, i \in 1..3, k \in Keys : DoNsmDelete(t, i, k)
    \/ \E t \in Txns, i \in 1..3, viewer \in Viewers : DoIter(t, i, viewer)
    \/ \E t \in Txns, i \in 1..3, v \in Values : DoFind(t, i, v)
    \/ \E t \in Txns, e \in FnErrs : UpdateReturn(t, e)
    \/ \E t \in Txns, e \in FnErrs : ViewReturn(t, e)
    \/ \E name \in DropNames : DropNamespace(name)
    \/ DropAll

Spec == Init /\ [][Next]_vars

\* the README's bundle: one single-value and one multi-value namespace
ReadmeBundle == <<Single(<<1>>), Multi(<<2>>)>>

\* The handle's life from before the first Open, one transaction at a time.
InitLife ==
    /\ db = EmptyMap
    /\ builder = ReadmeBundle
    /\ pc = [t \in Txns |-> "idle"]
    /\ mode = [t \in Txns |-> "view"]
    /\ api = [t \in Txns |-> <<>>]
    /\ snap = [t \in Txns |-> EmptyMap]
    /\ pending = [t \in Txns |-> EmptyMap]
    /\ reads = [t \in Txns |-> {}]
    /\ dirty = [t \in Txns |-> {}]
    /\ nops = [t \in Txns |-> 0]
    /\ begun = 0
    /\ shadow = [t \in Txns |-> EmptyMap]
    /\ wrote = [t \in Txns |-> {}]
    /\ out = [t \in Txns |-> NoOut]
    /\ ret = NoRet
    /\ life = "none"
    /\ held = FALSE
    /\ disk = EmptyMap
    /\ repeater = "none"
    /\ sink = NoSink
    /\ opens = 0
    /\ committed = TypedContent(EmptyMap)
    /\ invoked = [t \in Txns |-> [builder |-> 0, fn |-> 0]]
    /\ prefixed = NoPrefixed

NextLife ==
    \/ \E nonNil \in BOOLEAN, okOpen \in BOOLEAN, okFlatten \in BOOLEAN :
           Open(nonNil, okOpen, okFlatten)
    \/ \E okClose \in BOOLEAN : Close(okClose)
    \/ \E okBackup \in BOOLEAN : Backup(okBackup)
    \/ \E fail \in LoadFails : LoadBackup(fail)
    \/ UpdateBegin(1)
    \/ ViewBegin(1)
    \/ \E i \in 1..2, v \in Values : DoNssSet(1, i, v)
    \/ \E i \in 1..2 : DoNssGet(1, i)
    \/ \E i \in 1..2 : DoNssDelete(1, i)
    \/ \E i \in 1..2, k \in Keys, v \in Values : DoNsmSet(1, i, k, v)
    \/ \E i \in 1..2, k \in Keys : DoNsmGet(1, i, k)
    \/ \E i \in 1..2, k \in Keys : DoNsmDelete(1, i, k)
    \/ \E e \in FnErrs : UpdateReturn(1, e)
    \/ \E e \in FnErrs : ViewReturn(1, e)

SpecLife == InitLife /\ [][NextLife]_vars

\* ------------------------------------------------------------- key spaces
\* two names, one a proper prefix of the other
KeyNames == {<<1>>, <<1, 2>>}

\* bundles of two accessors over those names: same name and both kinds, or
\* different names and any kinds
KeyBundles ==
    { <<Single(<<1>>), Multi(<<1>>)>>,
      <<Single(<<1>>), Single(<<1, 2>>)>>,
      <<Single(<<1>>), Multi(<<1, 2>>)>>,
      <<Multi(<<1>>), Single(<<1, 2>>)>>,
      <<Multi(<<1>>), Multi(<<1, 2>>)>>,
      <<Single(<<1, 2>>), Multi(<<1, 2>>)>> }

\* Get, Set and Delete through the two accessors of such a bundle, one
\* transaction at a time.
InitKeys ==
    /\ db = EmptyMap
    /\ builder \in KeyBundles
    /\ pc = [t \in Txns |-> "idle"]
    /\ mode = [t \in Txns |-> "view"]
    /\ api = [t \in Txns |-> <<>>]
    /\ snap = [t \in Txns |-> EmptyMap]
    /\ pending = [t \in Txns |-> EmptyMap]
    /\ reads = [t \in Txns |-> {}]
    /\ dirty = [t \in Txns |-> {}]
    /\ nops = [t \in Txns |-> 0]
    /\ begun = 0
    /\ shadow = [t \in Txns |-> EmptyMap]
    /\ wrote = [t \in Txns |-> {}]
    /\ out = [t \in Txns |-> NoOut]
    /\ ret = NoRet
    /\ life = "open"
    /\ held = TRUE
    /\ disk = EmptyMap
    /\ repeater = "started"
    /\ sink = NoSink
    /\ opens = 1
    /\ committed = TypedContent(EmptyMap)
    /\ invoked = [t \in Txns |-> [builder |-> 0, fn |-> 0]]
    /\ prefixed = NoPrefixed

NextKeys ==
    \/ UpdateBegin(1)
    \/ \E i \in 1..2, v \in Values : DoNssSet(1, i, v)
    \/ \E i \in 1..2 : DoNssGet(1, i)
    \/ \E i \in 1..2 : DoNssDelete(1, i)
    \/ \E i \in 1..2, k \in Keys, v \in Values : DoNsmSet(1, i, k, v)
    \/ \E i \in 1..2, k \in Keys : DoNsmGet(1, i, k)
    \/ \E i \in 1..2, k \in Keys : DoNsmDelete(1, i, k)
    \/ \E e \in FnErrs : UpdateReturn(1, e)

SpecKeys == InitKeys /\ [][NextKeys]_vars

\* ------------------------------------------------------------ properties
\* a name the data model allows: non-empty, no 0x00 byte
ValidName(name) == Len(name) > 0 /\ \A i \in 1..Len(name) : name[i] # 0

\* the namespace an engine key belongs to: its bytes before the first 0x00
KeyNamespace(k) ==
    IF \E i \in 1..Len(k) : k[i] = 0
    THEN SubSeq(k, 1, (CHOOSE i \in 1..Len(k) :
                          k[i] = 0 /\ \A j \in 1..(i - 1) : k[j] # 0) - 1)
    ELSE k

MultiCell(name, key) == [kind |-> "multi", name |-> name, key |-> key]

SingleCell(name) == [kind |-> "single", name |-> name, key |-> <<>>]

\* the step in which Update returns to its caller
UpdateReturns(t) == InFlight(t) /\ mode[t] = "update" /\ pc'[t] = "done"

\* every typed slot the transaction wrote reads, in a transaction started
\* on the store, as the transaction left it
WritesVisible(t, store) ==
    \A c \in wrote[t] : ReadCell(FreshView(store), c) = shadow[t][c]

\* C1 (as amended): Update is all-or-nothing.  If the user function returns
\* an error, Update returns an error; whenever Update returns an error (the
\* user function's, or the engine's commit conflict) the committed store is
\* what it was before the step; when Update returns nil every write of the
\* transaction is visible to a transaction started afterwards.
UpdateAllOrNothing ==
    [][\A t \in Txns : UpdateReturns(t) =>
          /\ (out'[t].fnErr # Nil => out'[t].err # Nil)
          /\ (out'[t].err # Nil => db' = db)
          /\ (out'[t].err = Nil => WritesVisible(t, db'))]_vars

\* C1 witness: an Update that had made writes returned an error
UpdateRolledBack ==
    \E t \in Txns : out[t].kind = "update" /\ out[t].err # Nil /\ out[t].nwrites > 0

\* C1 (as stated): an error of the user function discards the writes, and
\* whenever the user function returns nil all of the writes are visible to
\* later transactions.
UpdateNilAlwaysCommits ==
    [][\A t \in Txns : UpdateReturns(t) =>
          /\ (out'[t].fnErr # Nil => out'[t].err # Nil /\ db' = db)
          /\ (out'[t].fnErr = Nil => WritesVisible(t, db'))]_vars

\* C2: isolation.  In every transaction in flight, each typed slot reads,
\* through every accessor of the bundle, as the user function expects: in an
\* Update its own latest write (read-your-own-writes), in a View what the
\* slot held when the View started, whatever other calls have committed.
Isolation ==
    \A t \in Txns : InFlight(t) =>
        \A i \in 1..Len(api[t]) : \A c \in DOMAIN shadow[t] :
            (c.kind = api[t][i].kind /\ c.name = api[t][i].name) =>
                ReadCell(Tx(api[t][i].txn), c) = shadow[t][c]

\* C2 witness: a View is in flight while an Update that started after it has
\* committed writes that changed the store the View started on
ViewOverlapsCommit ==
    /\ InFlight(1) /\ mode[1] = "view"
    /\ out[2].kind = "update" /\ out[2].err = Nil /\ out[2].nwrites > 0
    /\ db # snap[1]

\* C3 (as stated): prefix isolation.  DropNamespace(B) removes no key of a
\* namespace named otherwise, and Iter on B visits only pairs stored in B.
PrefixIsolation ==
    [][/\ \A B \in DropNames : DropNamespace(B) =>
              \A k \in DOMAIN db : KeyNamespace(k) # B =>
                  k \in DOMAIN db' /\ db'[k] = db[k]
       /\ (ret'.op = "Iter" =>
              \A j \in 1..Len(ret'.calls) :
                  shadow'[ret'.t][MultiCell(ret'.name, ret'.calls[j].key)]
                      = Present(ret'.calls[j].value))]_vars

\* C4: single-value namespace in a read-write transaction.  Get returns the
\* value of the most recent Set and nil, or the zero value and nil when
\* nothing is stored (shadow holds what the calls made so far leave in each
\* typed slot); Set and Delete return nil; a Delete leaves every other slot,
\* and an absent slot itself, reading as before.
SingleGetSetDelete ==
    /\ \A t \in Txns : InFlight(t) /\ mode[t] = "update" =>
          /\ \A c \in DOMAIN shadow[t] : c.kind = "single" =>
                /\ NssGet(Tx(t), c.name) = [value |-> shadow[t][c].val, err |-> Nil]
                /\ (~shadow[t][c].ok => shadow[t][c].val = 0)
          /\ (ret.t = t /\ ret.op = "NssGet" =>
                /\ ret.err = Nil
                /\ ret.value = shadow[t][SingleCell(ret.name)].val)
          /\ (ret.t = t /\ ret.op \in {"NssSet", "NssDelete"} => ret.err = Nil)
          /\ (ret.t = t /\ ret.op = "NssDelete" =>
                \A c \in DOMAIN shadow[t] : ReadCell(Tx(t), c) = shadow[t][c])

\* C4 witness: Get returned the value the same transaction had Set
SingleGetAfterSet ==
    /\ ret.op = "NssGet" /\ ret.value \in Values
    /\ InFlight(ret.t) /\ mode[ret.t] = "update"
    /\ SingleCell(ret.name) \in wrote[ret.t]

\* C5: multi-value namespace in a read-write transaction.  Get(k) returns
\* (v, true, nil) for the most recent Set(k, v) and (zero, false, nil) when k
\* is absent (shadow holds what the calls made so far leave in each typed
\* slot); Set and Delete return nil; Set/Delete on k leaves Get(k') as it was
\* for every other key k'.
MultiGetSetDelete ==
    \A t \in Txns : InFlight(t) /\ mode[t] = "update" =>
        /\ \A c \in DOMAIN shadow[t] : c.kind = "multi" =>
              /\ NsmGet(Tx(t), c.name, c.key) =
                    [value |-> shadow[t][c].val, ok |-> shadow[t][c].ok, err |-> Nil]
              /\ (~shadow[t][c].ok => shadow[t][c].val = 0)
        /\ (ret.t = t /\ ret.op = "NsmGet" =>
              /\ ret.err = Nil
              /\ ret.value = shadow[t][MultiCell(ret.name, ret.key)].val
              /\ ret.ok = shadow[t][MultiCell(ret.name, ret.key)].ok)
        /\ (ret.t = t /\ ret.op \in {"NsmSet", "NsmDelete"} => ret.err = Nil)

\* C5 witness: Get(k) returned absent for a key the store held when the
\* transaction started and the transaction has deleted
MultiGetAfterDelete ==
    /\ ret.op = "NsmGet" /\ ~ret.ok /\ ret.err = Nil
    /\ InFlight(ret.t) /\ mode[ret.t] = "update"
    /\ MultiCell(ret.name, ret.key) \in wrote[ret.t]
    /\ NsmKey(ret.name, ret.key) \in DOMAIN snap[ret.t]

\* typed keys of a namespace the transaction expects to be stored
StoredKeys(t, name) == {k \in Keys : shadow[t][MultiCell(name, k)].ok}

\* the pairs of a namespace in ascending order of their encoded keys
PairsInOrder(t, name) ==
    LET enc == SortKeys({encodeGobString(k) : k \in StoredKeys(t, name)})
    IN [i \in 1..Len(enc) |->
           LET k == CHOOSE x \in StoredKeys(t, name) : encodeGobString(x) = enc[i]
           IN <<k, shadow[t][MultiCell(name, k)].val>>]

\* C6 (as stated): with a visitor that never stops or fails, Iter visits
\* exactly the pairs stored in its namespace, once each, in ascending order
\* of the encoded keys, and returns nil.
IterVisitsNamespace ==
    (ret.op = "Iter" /\ ret.at = 0) =>
        /\ ~ret.panic
        /\ ret.err = Nil
        /\ [j \in 1..Len(ret.calls) |-> <<ret.calls[j].key, ret.calls[j].value>>]
               = PairsInOrder(ret.t, ret.name)

\* C7: Iter early termination.  Only the last call of the visitor may have
\* answered stop or an error; after such an answer, and after a decode
\* failure, no further entry is touched; stop alone makes Iter return nil,
\* an error makes it return an error wrapping the visitor's.
IterEarlyTermination ==
    ret.op = "Iter" =>
        LET n == Len(ret.calls) IN
        /\ \A j \in 1..(n - 1) : ~ret.calls[j].stop /\ ret.calls[j].err = Nil
        /\ n <= ret.seen
        /\ (n > 0 /\ ret.calls[n].err # Nil =>
               /\ ret.err # Nil /\ ErrorsIs(ret.err, ret.calls[n].err)
               /\ ~ret.panic /\ ret.seen = n)
        /\ (n > 0 /\ ret.calls[n].stop /\ ret.calls[n].err = Nil =>
               ret.err = Nil /\ ~ret.panic /\ ret.seen = n)
        /\ (ErrorsIs(ret.err, <<"decodeGob", "EOF">>) => ret.seen = n + 1)

\* C7 witness: the visitor answered stop at its first call while the
\* namespace held another pair, and Iter returned nil
IterStoppedEarly ==
    /\ ret.op = "Iter" /\ Len(ret.calls) = 1 /\ ret.calls[1].stop
    /\ ret.calls[1].err = Nil /\ ret.err = Nil
    /\ Cardinality(StoredKeys(ret.t, ret.name)) = 2

\* typed keys of a namespace whose stored value is the searched one
Matches(t, name, value) ==
    {k \in StoredKeys(t, name) : shadow[t][MultiCell(name, k)].val = value}

\* C8 (as stated): FindKeyByValue returns (zero key, false, nil) when no
\* pair of the namespace stores the searched value.
FindNotFound ==
    (ret.op = "FindKeyByValue" /\ Matches(ret.t, ret.name, ret.value) = {}) =>
        ret.key = <<>> /\ ~ret.ok /\ ret.err = Nil /\ ~ret.panic

\* C9 (as stated): when a pair of the namespace stores the searched value,
\* FindKeyByValue returns (k, true, nil) for the first such pair in
\* ascending encoded-key order, and Get(k) returns that value.
FindFound ==
    (ret.op = "FindKeyByValue" /\ Matches(ret.t, ret.name, ret.value) # {}) =>
        /\ ~ret.panic
        /\ ret.err = Nil /\ ret.ok
        /\ ret.key \in Matches(ret.t, ret.name, ret.value)
        /\ \A k \in Matches(ret.t, ret.name, ret.value) \ {ret.key} :
               LexLess(encodeGobString(ret.key), encodeGobString(k))
        /\ NsmGet(Tx(ret.t), ret.name, ret.key) =
               [value |-> ret.value, ok |-> TRUE, err |-> Nil]

BuilderValid == \A i \in 1..Len(builder) : ValidName(builder[i].name)

\* C10: a constructor given an empty name or a name with a 0x00 byte panics
\* and no accessor exists; given any other name it yields the accessor, and
\* building the bundle reads and writes nothing in the engine.
ConstructorPreconditions ==
    \A t \in Txns :
        /\ (InFlight(t) =>
               /\ BuilderValid
               /\ Len(api[t]) = Len(builder)
               /\ \A i \in 1..Len(api[t]) :
                      /\ ~api[t][i].panic
                      /\ api[t][i].name = builder[i].name
                      /\ api[t][i].kind = builder[i].kind)
        /\ (InFlight(t) /\ nops[t] = 0 =>
               DOMAIN pending[t] = {} /\ reads[t] = {})
        /\ (~BuilderValid => api[t] = <<>> /\ pc[t] \in {"idle", "panicked"})
        /\ (pc[t] = "panicked" /\ nops[t] = 0 => ~BuilderValid)

\* C10 witness: building a bundle that names a namespace with a 0x00 byte
\* panicked
ConstructorPanicked ==
    \E t \in Txns :
        /\ pc[t] = "panicked" /\ nops[t] = 0
        /\ \E i \in 1..Len(builder) :
               builder[i].name # <<>> /\ ~ValidName(builder[i].name)

\* C11: durability across close and reopen.  When the handle is reopened
\* after a Close that returned nil, a View reads in every typed slot the value
\* of the last write committed by an Update that returned nil, and
\* zero/absent where the last such write was a delete or there was none.
DurableAcrossReopen ==
    [][life = "closed" /\ life' = "open" => TypedContent(db') = committed]_vars

\* C11 witness: after the reopen a View's Get returned a value an Update had
\* committed before the Close
ReadAfterReopen ==
    /\ opens = 2 /\ Opened
    /\ ret.op = "NssGet" /\ ret.value \in Values
    /\ mode[ret.t] = "view"
    /\ committed[SingleCell(ret.name)] = Present(ret.value)

\* C12: View is read-only.  Every Set or Delete made through an accessor
\* inside a View returns a non-nil error, and no step of a View call (its
\* start, the calls its user function makes, its return or its panic) changes
\* the committed store.
ViewReadOnly ==
    [][/\ (ret'.op \in {"NssSet", "NssDelete", "NsmSet", "NsmDelete"}
             /\ mode'[ret'.t] = "view" => ret'.err # Nil)
       /\ \A t \in Txns :
             mode'[t] = "view" /\ (pc'[t] # pc[t] \/ ret'.t = t) => db' = db]_vars

\* C12 witness: inside a View, over a store that holds committed data, a
\* Set or Delete has just been rejected
ViewWriteRejected ==
    /\ ret.op \in {"NssSet", "NssDelete", "NsmSet", "NsmDelete"}
    /\ InFlight(ret.t) /\ mode[ret.t] = "view"
    /\ ErrorsIs(ret.err, ErrReadOnlyTxn)
    /\ db # EmptyMap

\* C14 (as stated): no call on a constructed accessor panics; Get, Set,
\* Delete, Iter and FindKeyByValue each return a value or an error.
AccessorsNeverPanic ==
    ret.op \in {"NssSet", "NssGet", "NssDelete", "NsmSet", "NsmGet",
                "NsmDelete", "Iter", "FindKeyByValue"} => ~ret.panic

\* C15: DropNamespace(name) erases the whole namespace.  In a transaction
\* started once it has returned nil, the single-value namespace of that name
\* reads as the zero value, every Get(k) of the multi-value namespace of that
\* name is absent, and its Iter visits no pair and returns nil.
DropErasesNamespace ==
    [][\A name \in DropNames : DropNamespace(name) =>
          LET view == FreshView(db')
              it == Iter(view, name, [at |-> 0, stop |-> FALSE, err |-> Nil])
          IN /\ NssGet(view, name) = [value |-> 0, err |-> Nil]
             /\ \A k \in Keys :
                   NsmGet(view, name, k) = [value |-> 0, ok |-> FALSE, err |-> Nil]
             /\ it.calls = <<>> /\ it.err = Nil /\ ~it.panic]_vars

\* C15 witness: DropNamespace has returned after removing entries
DroppedSomething ==
    ret.op = "DropNamespace" /\ ret.err = Nil /\ ret.seen > 0

\* C16: Backup/LoadBackup round trip.  A LoadBackup, made with no transaction
\* in flight, of what a Backup that returned nil wrote, and that itself
\* returns nil, leaves the committed store equal to the store the Backup was
\* taken of: every key of it with its backed-up value and no other key.
BackupRoundTrip ==
    [][ret'.op = "LoadBackup" /\ ret'.err = Nil /\ sink.ok => db' = sink.store]_vars

\* C16 witness: LoadBackup returned nil, restored a non-empty backup and
\* removed keys written after the backup was taken
RestoredOlderStore ==
    /\ ret.op = "LoadBackup" /\ ret.err = Nil
    /\ sink.ok /\ sink.store # EmptyMap
    /\ ret.seen > 0

\* C17: no automatic retry.  Every Update or View call that runs has invoked
\* the bundle constructor once and the user function once; an Update whose
\* commit the engine refuses for a conflict returns a non-nil error, commits
\* none of its writes and is over without the user function running again.
NoRetry ==
    [][\A t \in Txns :
          /\ (pc'[t] \in {"active", "done"} =>
                invoked'[t] = [builder |-> 1, fn |-> 1])
          /\ (UpdateReturns(t) /\ HasConflict(t) =>
                /\ out'[t].err # Nil
                /\ db' = db
                /\ invoked'[t] = invoked[t])]_vars

\* C17 witness: an Update that had made writes was refused at commit for a
\* conflict with a concurrent Update
ConflictSurfaced ==
    \E t \in Txns :
        /\ out[t].kind = "update" /\ pc[t] = "done"
        /\ out[t].fnErr = Nil /\ ErrorsIs(out[t].err, ErrConflict)
        /\ out[t].nwrites > 0
        /\ invoked[t].fn = 1

MaxRawLen == 2

\* encoded typed keys: the encodings of Keys and every byte string of up to
\* MaxRawLen bytes
RawKeys ==
    {encodeGob("string", k) : k \in Keys} \cup
    UNION {[1..n -> {0, 1, 2}] : n \in 0..MaxRawLen}

\* the engine key behind a typed slot
CellKey(c) == IF c.kind = "single" THEN c.name ELSE NsmKey(c.name, c.key)

\* C18: engine keys never collide across namespaces.  For valid names A # B
\* and encoded keys k, k', the key A ++ 0x00 ++ k differs from B ++ 0x00 ++ k',
\* from the single-value key A and from the single-value key B; the typed
\* slots of a bundle have distinct engine keys, every stored, written or read
\* key belongs to one slot, and each slot reads what the calls on that slot
\* left in it, whatever was done through the other namespace.
KeysNeverCollide ==
    /\ \A A \in KeyNames : \A B \in KeyNames \ {A} :
       \A k \in RawKeys, k2 \in RawKeys :
          /\ addPrefixToKey(A, k) # addPrefixToKey(B, k2)
          /\ addPrefixToKey(A, k) # A
          /\ addPrefixToKey(A, k) # B
    /\ \A c \in Cells(builder), d \in Cells(builder) : c # d => CellKey(c) # CellKey(d)
    /\ \A t \in Txns : InFlight(t) =>
          /\ \A k \in DOMAIN db \cup DOMAIN pending[t] \cup reads[t] :
                \E c \in Cells(builder) : CellKey(c) = k
          /\ \A c \in DOMAIN shadow[t] : ReadCell(Tx(t), c) = shadow[t][c]

\* C18 witness: both namespaces of a bundle whose names differ hold committed
\* data and a Get through one of them has returned its own value
BothNamespacesStored ==
    /\ builder[1].name # builder[2].name
    /\ \A i \in 1..2 : \E c \in Cells(builder) :
          c.name = builder[i].name /\ CellKey(c) \in DOMAIN db
    /\ ret.op \in {"NssGet", "NsmGet"} /\ ret.value \in Values
    /\ ret.err = Nil

\* C20 (as stated): whenever Open returns an error, no engine instance
\* remains open on the path and no maintenance task is running.
OpenFailureLeavesNothing ==
    ret.op = "Open" /\ ret.err # Nil => ~held /\ repeater # "started"

\* ------------------------------------------------------------ key helpers
\* prefixes: every byte string of up to MaxRawLen bytes, the empty one and
\* those with 0x00 bytes included
RawPrefixes == UNION {[1..n -> {0, 1, 2}] : n \in 0..MaxRawLen}

\* The two key helpers applied to a prefix and a key: addPrefixToKey, then
\* removePrefixFromKey on its result.
InitPrefix ==
    /\ db = EmptyMap
    /\ builder = ReadmeBundle
    /\ pc = [t \in Txns |-> "idle"]
    /\ mode = [t \in Txns |-> "view"]
    /\ api = [t \in Txns |-> <<>>]
    /\ snap = [t \in Txns |-> EmptyMap]
    /\ pending = [t \in Txns |-> EmptyMap]
    /\ reads = [t \in Txns |-> {}]
    /\ dirty = [t \in Txns |-> {}]
    /\ nops = [t \in Txns |-> 0]
    /\ begun = 0
    /\ shadow = [t \in Txns |-> EmptyMap]
    /\ wrote = [t \in Txns |-> {}]
    /\ out = [t \in Txns |-> NoOut]
    /\ ret = NoRet
    /\ life = "open"
    /\ held = TRUE
    /\ disk = EmptyMap
    /\ repeater = "started"
    /\ sink = NoSink
    /\ opens = 1
    /\ committed = TypedContent(EmptyMap)
    /\ invoked = [t \in Txns |-> [builder |-> 0, fn |-> 0]]
    /\ \E p \in RawPrefixes, k \in RawKeys :
          prefixed = [NoPrefixed EXCEPT !.step = "args", !.prefix = p, !.key = k]

\* addPrefixToKey(prefix, key)
AddPrefix ==
    /\ prefixed.step = "args"
    /\ prefixed' = [prefixed EXCEPT
          !.step = "added",
          !.full = addPrefixToKey(prefixed.prefix, prefixed.key)]
    /\ UNCHANGED <<db, builder, pc, mode, api, snap, pending, reads, dirty, nops,
                   begun, shadow, wrote, out, ret, lifecycle, committed, invoked>>

\* removePrefixFromKey(prefix, full): the slice expression panics when its
\* start lies beyond the key's length
RemovePrefix ==
    /\ prefixed.step = "added"
    /\ prefixed' =
          IF removePrefixPanics(prefixed.prefix, prefixed.full)
          THEN [prefixed EXCEPT !.step = "removed", !.panic = TRUE]
          ELSE [prefixed EXCEPT
                   !.step = "removed",
                   !.stripped = removePrefixFromKey(prefixed.prefix, prefixed.full)]
    /\ UNCHANGED <<db, builder, pc, mode, api, snap, pending, reads, dirty, nops,
                   begun, shadow, wrote, out, ret, lifecycle, committed, invoked>>

NextPrefix == AddPrefix \/ RemovePrefix

SpecPrefix == InitPrefix /\ [][NextPrefix]_vars

\* C21: key prefixing round-trips.  For every prefix p and key bytes k, k
\* empty or holding 0x00 bytes included, addPrefixToKey(p, k) is p, then one
\* 0x00 byte, then k, and removePrefixFromKey(p, addPrefixToKey(p, k)) returns
\* k without panicking.
PrefixRoundTrip ==
    /\ (prefixed.step \in {"added", "removed"} =>
          /\ Len(prefixed.full) = Len(prefixed.prefix) + 1 + Len(prefixed.key)
          /\ SubSeq(prefixed.full, 1, Len(prefixed.prefix)) = prefixed.prefix
          /\ prefixed.full[Len(prefixed.prefix) + 1] = 0
          /\ SubSeq(prefixed.full, Len(prefixed.prefix) + 2, Len(prefixed.full))
                = prefixed.key)
    /\ (prefixed.step = "removed" =>
          ~prefixed.panic /\ prefixed.stripped = prefixed.key)

\* C21 witness: the round trip was made with a prefix and a key that both
\* hold a 0x00 byte
RoundTripWithNul ==
    /\ prefixed.step = "removed"
    /\ \E i \in 1..Len(prefixed.prefix) : prefixed.prefix[i] = 0
    /\ \E i \in 1..Len(prefixed.key) : prefixed.key[i] = 0

====
